---- MODULE Spec2Model ----
(***************************************************************************)
(* A model of synesthetic_screen: the Note accumulator (src/src/note.rs),  *)
(* and the per-frame pipeline of the Synesthetizer as App::update drives   *)
(* it (src/src/synesthetizer.rs, src/src/app.rs, src/src/music.rs).        *)
(*                                                                         *)
(* f32 values are modelled on a grid of 1/4: the integer k stands for the  *)
(* float k * 0.25.  Sums and differences of such floats are exact in f32   *)
(* for the magnitudes used here, so the integer arithmetic below is the    *)
(* float arithmetic of the code on these inputs.  NaN and infinities are   *)
(* not modelled.                                                           *)
(***************************************************************************)
EXTENDS Integers, Sequences, FiniteSets, TLC

\* ------------------------------------------------------------------ bounds
\* midi values offered to a Note are 0..MaxMidi (in units of 0.25)
MaxMidi == 6
\* amplitudes offered to a Note are 0..MaxAmp (in units of 0.25)
MaxAmp == 3

MidiVals == 0..MaxMidi
AmpVals == 0..MaxAmp

\* a glyph composited more than MaxLayers times onto itself no longer changes
MaxLayers == 2
\* load_music is run for every sample rate 0..MaxRate (and for common rates)
MaxRate == 120
\* the powers of two a result of load_music is compared with: 2^1 .. 2^MaxExp
MaxExp == 26
MaxBins == 3
MaxFrames == 6
MaxPos == 16
MaxLoads == 3

\* ------------------------------------------------------- program constants
\* Note::MAX_MIDI_RANGE = 1.0, in units of 0.25
MAX_MIDI_RANGE == 4
\* Note::MAX_AMPLITUDE_RANGE = 0.25, in units of 0.25
MAX_AMPLITUDE_RANGE == 1
\* target_fps of load_music
TARGET_FPS == 12
\* A8_FREQ = 7902.13, in units of 0.01 Hz
A8_FREQ == 790213

Abs(x) == IF x < 0 THEN -x ELSE x

VARIABLES
    \* ---- the Note under test (note.rs)
    note,       \* the Note: peak_pitch (its midi), peak_amplitude, amp_range, midi_range
    call,       \* the last operation applied to the note, with its arguments
    result,     \* what that operation returned
    \* ---- Synesthetizer (synesthetizer.rs)
    samples_per_frame,  \* usize
    current_frame,      \* Vec<f32>: its length (the samples go to the external FFT)
    current_notes,      \* Vec<Note>
    previous_image,     \* RgbaImage: the persisted overlay buffer
    is_overlay,         \* bool: the overlay setting as new_frame last saw it
    snapshot_request,   \* Option<PathBuf>: "None" or a path
    \* ---- App (app.rs), MusicLoader (music.rs), SettingsWindow (settings_window.rs)
    music_state,        \* MusicState: Silence | Loading | Loaded, with the track and its playback state
    active_channel,     \* MusicLoader::active_channel: None or the load in progress
    settings,           \* Settings.is_overlay
    is_open,            \* SettingsWindow.is_open
    pc,                 \* the position inside App::update
    crashed,            \* a panic has unwound App::update: the process is gone
    \* ---- the file system and what a tick is seen to do
    files,              \* what each path holds: no file, or the raster written to it
    frame_start,        \* the local `image` of the last new_frame, as first bound (line 101)
    frame_out,          \* the raster the last new_frame returned
    tick_error,         \* the fallible call that returned Err in the last new_frame, or "none"
    toggled_off,        \* "no", or the overlay setting was switched off and no tick has run
                        \* with it on since: "dirty" if glyphs were persisted then, else "clean"
    last_tick,          \* the last new_frame that returned: the overlay setting it ran
                        \* with ("none" before the first), and toggled_off as it found it
    \* ---- single operations, run on their own
    load_loop,          \* load_music: the track's sample rate, samples_per_frame, the loop's position
    tones,              \* find_tones: current_notes while the bins of one spectrum arrive
    sampler,            \* update_samples: the track, the position, the window it leaves
    loader              \* MusicLoader with its worker threads, under any order of calls

noteVars == <<note, call, result>>
synVars == <<samples_per_frame, current_frame, current_notes, previous_image,
             is_overlay, snapshot_request>>
appVars == <<music_state, active_channel, settings, is_open, pc, crashed>>
obsVars == <<files, frame_start, frame_out, tick_error, toggled_off, last_tick>>
pipeVars == <<synVars, appVars, obsVars>>
unitVars == <<load_loop, tones, sampler, loader>>
vars == <<noteVars, pipeVars, unitVars>>

\* ------------------------------------------------------------ note.rs
\* std::ops::Range<f32>::contains: start <= v < end (half open)
Contains(r, v) == r.start <= v /\ v < r.end

dist_from_range_bounds(v, r) ==
    IF Contains(r, v) THEN 0
    ELSE IF v > r.start THEN v - r.start
    ELSE r.end - v

\* mutant of include_in_range: the branch that moves `start` is lost
include_in_range_no_start(v, r) ==
    IF ~Contains(r, v) /\ ~(v > r.start) /\ v < r.end
        THEN [r EXCEPT !.end = v]
        ELSE r

include_in_range(v, r) ==
    IF ~Contains(r, v)
        THEN IF v > r.start THEN [r EXCEPT !.start = v]
             ELSE IF v < r.end THEN [r EXCEPT !.end = v]
             ELSE r
        ELSE r

range_len(r) == r.end - r.start

Note_new(pitch, amplitude) ==
    [ peak_pitch     |-> pitch,
      peak_amplitude |-> amplitude,
      amp_range      |-> [start |-> amplitude, end |-> amplitude],
      midi_range     |-> [start |-> pitch, end |-> pitch] ]

distance_from_midi(n, midi) == dist_from_range_bounds(midi, n.midi_range)

\* the two halves of the rejection test of try_include
MidiRejects(n, pitch) ==
    dist_from_range_bounds(pitch, n.midi_range) + range_len(n.midi_range) > MAX_MIDI_RANGE

AmpRejects(n, amplitude) ==
    dist_from_range_bounds(amplitude, n.amp_range) + range_len(n.amp_range) > MAX_AMPLITUDE_RANGE

\* the accepting branch of try_include
Absorb(n, pitch, amplitude) ==
    LET n1 == [n EXCEPT !.amp_range = include_in_range(amplitude, n.amp_range),
                        !.midi_range = include_in_range(pitch, n.midi_range)]
    IN  IF amplitude > n1.peak_amplitude
            THEN [n1 EXCEPT !.peak_amplitude = amplitude, !.peak_pitch = pitch]
            ELSE n1

\* mutant of try_include: midi_range is extended before the amplitude test
try_include_midi_first(n, pitch, amplitude) ==
    IF MidiRejects(n, pitch) THEN [ok |-> FALSE, note |-> n]
    ELSE LET n1 == [n EXCEPT !.midi_range = include_in_range(pitch, n.midi_range)]
         IN  IF AmpRejects(n, amplitude) THEN [ok |-> FALSE, note |-> n1]
             ELSE [ok |-> TRUE, note |-> Absorb(n, pitch, amplitude)]

\* try_include: [ok |-> the call returned Ok(()), note |-> the Note afterwards]
try_include(n, pitch, amplitude) ==
    IF MidiRejects(n, pitch) \/ AmpRejects(n, amplitude)
        THEN [ok |-> FALSE, note |-> n]
        ELSE [ok |-> TRUE, note |-> Absorb(n, pitch, amplitude)]

\* ------------------------------------------------------ synesthetizer.rs
\* A raster is modelled by the glyphs painted on it: a function from a glyph
\* (the peak midi and peak amplitude that fix its place, size and colour) to the
\* number of times it was composited, which stops counting at MaxLayers (8-bit
\* alpha-over blending of one glyph onto itself reaches a fixed point).
Blank == [g \in {} |-> 0]

\* RgbaImage::new(FRAME_WIDTH, FRAME_HEIGHT): fully transparent
NewImage == Blank

\* Note::height and Note::width, amplitudes in units of 0.25
NoteHeight(n) == 25 * n.peak_amplitude + 3
NoteWidth(n) == (2500 \div NoteHeight(n)) * 2

\* Note::paint: a zero-size glyph is skipped, any other is composited
paint(n, image) ==
    IF NoteWidth(n) = 0 \/ NoteHeight(n) = 0 THEN image
    ELSE LET g == <<n.peak_pitch, n.peak_amplitude>>
         IN  IF g \in DOMAIN image
                 THEN [image EXCEPT ![g] = IF @ < MaxLayers THEN @ + 1 ELSE @]
                 ELSE image @@ (g :> 1)

\* for note in &self.current_notes { note.paint(&mut image, ..) }
RECURSIVE PaintAll(_, _)
PaintAll(notes, image) ==
    IF notes = << >> THEN image
    ELSE PaintAll(Tail(notes), paint(Head(notes), image))

\* mutant of clear_overlay: the persisted buffer is kept
clear_overlay_keeps(prev) == prev

\* Synesthetizer::clear_overlay: the new value of previous_image
clear_overlay(prev) == NewImage

\* lines 92-99 of new_frame: previous_image after the settings were compared
AfterToggle(setting, overlay, prev) ==
    IF setting # overlay /\ ~setting THEN clear_overlay(prev) ELSE prev

\* lines 101-105 of new_frame: the canvas the tick starts from
StartImage(overlay, prev) == IF overlay THEN prev ELSE NewImage

\* mutant of Persist: the canvas of the tick is not stored
PersistNothing(overlay, image, prev) == prev

\* lines 125-127 of new_frame: previous_image after the notes were drawn
Persist(overlay, image, prev) == IF overlay THEN image ELSE prev

\* mutant of ClosestIndex: the last note of minimal distance
ClosestIndexLast(notes, midi) ==
    CHOOSE i \in 1..Len(notes) :
        /\ \A k \in 1..Len(notes) :
               distance_from_midi(notes[i], midi) <= distance_from_midi(notes[k], midi)
        /\ \A k \in (i + 1)..Len(notes) :
               distance_from_midi(notes[k], midi) > distance_from_midi(notes[i], midi)

\* Iterator::min_by over current_notes: the first note of minimal distance
ClosestIndex(notes, midi) ==
    CHOOSE i \in 1..Len(notes) :
        /\ \A k \in 1..Len(notes) :
               distance_from_midi(notes[i], midi) <= distance_from_midi(notes[k], midi)
        /\ \A k \in 1..(i - 1) :
               distance_from_midi(notes[k], midi) > distance_from_midi(notes[i], midi)

\* the body of the loop of find_tones, for one bin
OfferBin(notes, bin) ==
    IF notes = << >> THEN Append(notes, Note_new(bin.midi, bin.amp))
    ELSE LET i == ClosestIndex(notes, bin.midi)
             r == try_include(notes[i], bin.midi, bin.amp)
         IN  IF r.ok THEN [notes EXCEPT ![i] = r.note]
             ELSE Append(notes, Note_new(bin.midi, bin.amp))

RECURSIVE OfferAll(_, _)
OfferAll(notes, bins) ==
    IF bins = << >> THEN notes
    ELSE OfferAll(OfferBin(notes, Head(bins)), Tail(bins))

\* slice::sort_by on peak_amplitude: stable, ascending
RECURSIVE InsertSorted(_, _)
InsertSorted(sorted, n) ==
    IF sorted = << >> THEN <<n>>
    ELSE IF Head(sorted).peak_amplitude <= n.peak_amplitude
        THEN <<Head(sorted)>> \o InsertSorted(Tail(sorted), n)
        ELSE <<n>> \o sorted

RECURSIVE SortByAmplitude(_)
SortByAmplitude(notes) ==
    IF notes = << >> THEN << >>
    ELSE InsertSorted(SortByAmplitude(SubSeq(notes, 1, Len(notes) - 1)), notes[Len(notes)])

\* Synesthetizer::find_tones: current_notes after the call.  A bin is given by
\* the midi value Pitch::from_frequency computes for it and by its amplitude.
find_tones(spectrum) == SortByAmplitude(OfferAll(<< >>, spectrum))

\* mutant of CloserWhenDoubled: doubles while the halved frame rate stays above
\* the target
DoubledStaysAboveTarget(rate, n) == rate > TARGET_FPS * 2 * n

\* times_2_diff < current_diff in load_music: |rate/2n - 12| < |rate/n - 12|,
\* both sides multiplied by 2n.  rate / n is exact in f64 for a power of two n,
\* and so are the two differences.
CloserWhenDoubled(rate, n) ==
    Abs(rate - TARGET_FPS * 2 * n) < 2 * Abs(rate - TARGET_FPS * n)

\* the doubling loop of load_music
RECURSIVE DoubleWhileCloser(_, _)
DoubleWhileCloser(rate, n) ==
    IF CloserWhenDoubled(rate, n)
        THEN DoubleWhileCloser(rate, n * 2)
        ELSE n

\* Synesthetizer::load_music: samples_per_frame after the call
load_music(rate) == DoubleWhileCloser(rate, 2)

RECURSIVE IsPowerOfTwo(_)
IsPowerOfTwo(n) == n = 1 \/ (n > 1 /\ n % 2 = 0 /\ IsPowerOfTwo(n \div 2))

\* samples_fft_to_spectrum(..) returns Err: fewer than two samples, a length
\* that is no power of two, or an upper frequency limit (A8_FREQ) above the
\* Nyquist frequency of the track
FftFails(len, rate) ==
    \/ len < 2
    \/ ~IsPowerOfTwo(len)
    \/ rate * 100 < 2 * A8_FREQ

\* ---------------------------------------------------- the spectra of a tick
Bin(m, a) == [midi |-> m, amp |-> a]

\* what the transform may yield on a tick: nothing, two bins one note absorbs,
\* two bins that stay apart (the louder one first)
Spectra == { << >>, <<Bin(0, 2), Bin(2, 1)>>, <<Bin(0, 2), Bin(6, 1)>> }

\* sample rates of the files a user may open
SampleRates == {44100, 8000}

\* the paths a save dialog may return
Paths == {"a.png", "b.png"}

\* --------------------------------------------------------------- music.rs
Silence == [tag |-> "Silence", rate |-> 0, playback |-> "Stopped"]
Loading(rate) == [tag |-> "Loading", rate |-> rate, playback |-> "Stopped"]
Loaded(rate, playback) == [tag |-> "Loaded", rate |-> rate, playback |-> playback]

IsLoaded == music_state.tag = "Loaded"

\* MusicLoader::active_channel: None, or Some(LoadingChannel) with the state of
\* its worker thread (finished, and whether it returned Ok)
NoChannel == [some |-> FALSE, rate |-> 0, finished |-> FALSE, ok |-> FALSE]

\* what a path holds: nothing, or the raster image::save_buffer wrote
NoFile == [exists |-> FALSE, image |-> Blank]
File(image) == [exists |-> TRUE, image |-> image]

\* Music::play: a stopped sound is started again, any other is resumed
play(m) == [m EXCEPT !.playback = "Playing"]
\* Music::pause
pause(m) == [m EXCEPT !.playback = IF @ = "Stopped" THEN @ ELSE "Paused"]
\* Music::stop
stop(m) == [m EXCEPT !.playback = "Stopped"]

\* ------------------------------------------------------- the pipeline state
InitPipe ==
    /\ samples_per_frame = 0
    /\ current_frame = 0
    /\ current_notes = << >>
    /\ previous_image = NewImage
    /\ is_overlay = FALSE
    /\ snapshot_request = "None"
    /\ music_state = Silence
    /\ active_channel = NoChannel
    /\ settings = FALSE
    /\ is_open = FALSE
    /\ pc = "check_loaded"
    /\ crashed = FALSE
    /\ files = [p \in Paths |-> NoFile]
    /\ frame_start = NewImage
    /\ frame_out = NewImage
    /\ tick_error = "none"
    /\ toggled_off = "no"
    /\ last_tick = [overlay |-> "none", after_off |-> "no"]

\* the worker thread of load_from_file returns: Ok(sound_data) or Err
WorkerFinishes ==
    /\ ~crashed
    /\ active_channel.some
    /\ ~active_channel.finished
    /\ \E ok \in BOOLEAN :
           active_channel' = [active_channel EXCEPT !.finished = TRUE, !.ok = ok]
    /\ UNCHANGED <<noteVars, unitVars, synVars, obsVars, music_state, settings, is_open,
                   pc, crashed>>

\* the audio engine reaches the end of the sound: its state becomes Stopped
SoundEnds ==
    /\ ~crashed
    /\ IsLoaded
    /\ music_state.playback = "Playing"
    /\ music_state' = stop(music_state)
    /\ UNCHANGED <<noteVars, unitVars, synVars, obsVars, active_channel, settings,
                   is_open, pc, crashed>>

\* App::update, lines 65-68: MusicLoader::check_loaded, then load_music
CheckLoaded ==
    /\ ~crashed
    /\ pc = "check_loaded"
    /\ pc' = "control"
    /\ IF active_channel.some /\ active_channel.finished
           THEN /\ active_channel' = NoChannel
                /\ IF active_channel.ok
                       THEN /\ samples_per_frame' = load_music(active_channel.rate)
                            /\ current_frame' = 0
                            /\ music_state' = Loaded(active_channel.rate, "Playing")
                       ELSE UNCHANGED <<samples_per_frame, current_frame, music_state>>
           ELSE UNCHANGED <<active_channel, samples_per_frame, current_frame, music_state>>
    /\ UNCHANGED <<noteVars, unitVars, obsVars, current_notes, previous_image, is_overlay,
                   snapshot_request, settings, is_open, crashed>>

\* MusicControl::Nothing
ControlNothing ==
    /\ ~crashed
    /\ pc = "control"
    /\ pc' = "new_frame"
    /\ UNCHANGED <<noteVars, unitVars, synVars, obsVars, music_state, active_channel, settings,
                   is_open, crashed>>

\* the scrub bar is dragged: Music::scrub starts a stopped sound again
ControlScrub ==
    /\ ~crashed
    /\ pc = "control"
    /\ IsLoaded
    /\ pc' = "new_frame"
    /\ music_state' = IF music_state.playback = "Stopped" THEN play(music_state)
                      ELSE music_state
    /\ UNCHANGED <<noteVars, unitVars, synVars, obsVars, active_channel, settings,
                   is_open, crashed>>

\* MusicControl::Settings: the button exists only beside a loaded track
ControlSettings ==
    /\ ~crashed
    /\ pc = "control"
    /\ IsLoaded
    /\ pc' = "new_frame"
    /\ is_open' = ~is_open
    /\ UNCHANGED <<noteVars, unitVars, synVars, obsVars, music_state, active_channel,
                   settings, crashed>>

\* MusicControl::LoadMusic with a file picked: Music::stop, load_from_file
ControlLoadMusic ==
    /\ ~crashed
    /\ pc = "control"
    /\ music_state.tag \in {"Silence", "Loaded"}
    /\ pc' = "new_frame"
    /\ \E rate \in SampleRates :
           /\ music_state' = Loading(rate)
           /\ active_channel' = [some |-> TRUE, rate |-> rate, finished |-> FALSE, ok |-> FALSE]
    /\ UNCHANGED <<noteVars, unitVars, synVars, obsVars, settings, is_open, crashed>>

\* MusicControl::Snapshot: pause, request_snapshot when a path was chosen, play
ControlSnapshot ==
    /\ ~crashed
    /\ pc = "control"
    /\ IsLoaded
    /\ pc' = "new_frame"
    /\ \E path \in Paths \cup {"None"} :
           snapshot_request' = IF path = "None" THEN snapshot_request ELSE path
    /\ music_state' = play(pause(music_state))
    /\ UNCHANGED <<noteVars, unitVars, obsVars, samples_per_frame, current_frame, current_notes,
                   previous_image, is_overlay, active_channel, settings, is_open, crashed>>

\* MusicControl::TogglePause
ControlTogglePause ==
    /\ ~crashed
    /\ pc = "control"
    /\ IsLoaded
    /\ pc' = "new_frame"
    /\ music_state' = IF music_state.playback = "Playing" THEN pause(music_state)
                      ELSE play(music_state)
    /\ UNCHANGED <<noteVars, unitVars, synVars, obsVars, active_channel, settings,
                   is_open, crashed>>

\* Synesthetizer::new_frame, called at line 103 of App::update.  A fallible
\* call that returns Err is unwrapped: the panic leaves what was assigned
\* before it and ends the process.
NewFrame ==
    /\ ~crashed
    /\ pc = "new_frame"
    /\ \E spectrum \in Spectra, save_ok \in BOOLEAN :
        LET prev1 == AfterToggle(settings, is_overlay, previous_image)
            image0 == StartImage(settings, prev1)
            analyse == IsLoaded /\ music_state.playback # "Stopped"
            fft_err == analyse /\ FftFails(samples_per_frame, music_state.rate)
            notes1 == IF analyse THEN find_tones(spectrum) ELSE current_notes
            image1 == IF analyse THEN PaintAll(notes1, image0) ELSE image0
            prev2 == Persist(settings, image1, prev1)
            save_err == snapshot_request # "None" /\ ~save_ok
        IN  /\ is_overlay' = settings
            /\ frame_start' = image0
            /\ current_frame' = IF analyse THEN samples_per_frame ELSE current_frame
            /\ IF fft_err
                   THEN /\ crashed' = TRUE
                        /\ tick_error' = "transform"
                        /\ previous_image' = prev1
                        /\ UNCHANGED <<current_notes, snapshot_request, files, frame_out,
                                       toggled_off, last_tick, pc>>
                   ELSE /\ current_notes' = notes1
                        /\ previous_image' = prev2
                        /\ IF save_err
                               THEN /\ crashed' = TRUE
                                    /\ tick_error' = "save"
                                    /\ UNCHANGED <<snapshot_request, files, frame_out,
                                                   toggled_off, last_tick, pc>>
                               ELSE /\ files' = IF snapshot_request = "None" THEN files
                                                ELSE [files EXCEPT ![snapshot_request] = File(image1)]
                                    /\ snapshot_request' = "None"
                                    /\ frame_out' = image1
                                    /\ tick_error' = "none"
                                    /\ toggled_off' = IF settings THEN "no" ELSE toggled_off
                                    /\ last_tick' = [overlay |-> IF settings THEN "on" ELSE "off",
                                                     after_off |-> toggled_off]
                                    /\ pc' = "settings"
                                    /\ UNCHANGED crashed
    /\ UNCHANGED <<noteVars, unitVars, samples_per_frame, music_state, active_channel,
                   settings, is_open>>

\* SettingsWindow::show, line 111 of App::update: an open window may have its
\* checkbox clicked, or be closed
SettingsShow ==
    /\ ~crashed
    /\ pc = "settings"
    /\ pc' = "check_loaded"
    /\ \E click \in {"none", "checkbox", "close"} :
           /\ click # "none" => is_open
           /\ settings' = IF click = "checkbox" THEN ~settings ELSE settings
           /\ is_open' = IF click = "close" THEN FALSE ELSE is_open
           /\ toggled_off' = IF click = "checkbox" /\ settings
                                  THEN IF previous_image = NewImage THEN "clean" ELSE "dirty"
                                  ELSE toggled_off
    /\ UNCHANGED <<noteVars, unitVars, synVars, music_state, active_channel, crashed,
                   files, frame_start, frame_out, tick_error, last_tick>>

Next ==
    \/ WorkerFinishes
    \/ SoundEnds
    \/ CheckLoaded
    \/ ControlNothing
    \/ ControlScrub
    \/ ControlSettings
    \/ ControlLoadMusic
    \/ ControlSnapshot
    \/ ControlTogglePause
    \/ NewFrame
    \/ SettingsShow

\* the Note of the Note state machine is not part of the pipeline
IdleNote ==
    /\ note = Note_new(0, 0)
    /\ call = [op |-> "new", midi |-> 0, amp |-> 0]
    /\ result = "Note"

\* the single operations are not part of the pipeline
IdleLoadLoop == load_loop = [pc |-> "idle", rate |-> 0, samples_per_frame |-> 0]
IdleTones == tones = [pc |-> "idle", notes |-> << >>, bins |-> << >>]
IdleSampler ==
    sampler = [pc |-> "idle", rate |-> 0, samples_per_frame |-> 0, len |-> 0, pos |-> 0,
               reads |-> {}, panicked |-> FALSE, current_frame |-> << >>]
\* MusicLoader::new: no load requested, active_channel: None
NoLoad == 0
InitLoader ==
    loader = [threads |-> << >>, active_channel |-> NoLoad, returned |-> "none",
              delivered |-> << >>, superseded |-> {}, consumed |-> FALSE, crashed |-> FALSE]
IdleUnits == IdleLoadLoop /\ IdleTones /\ IdleSampler /\ InitLoader

Init == IdleNote /\ InitPipe /\ IdleUnits

Spec == Init /\ [][Next]_vars

\* ------------------------------------------------- the Note state machine
InitNote ==
    \E p \in MidiVals, a \in AmpVals :
        /\ note = Note_new(p, a)
        /\ call = [op |-> "new", midi |-> p, amp |-> a]
        /\ result = "Note"
        /\ InitPipe
        /\ IdleUnits

NoteNew ==
    \E p \in MidiVals, a \in AmpVals :
        /\ note' = Note_new(p, a)
        /\ call' = [op |-> "new", midi |-> p, amp |-> a]
        /\ result' = "Note"
        /\ UNCHANGED <<pipeVars, unitVars>>

TryInclude ==
    \E p \in MidiVals, a \in AmpVals :
        LET r == try_include(note, p, a)
        IN  /\ note' = r.note
            /\ call' = [op |-> "try_include", midi |-> p, amp |-> a]
            /\ result' = IF r.ok THEN "Ok" ELSE "Err"
            /\ UNCHANGED <<pipeVars, unitVars>>

DistanceFromMidi ==
    \E m \in MidiVals :
        /\ call' = [op |-> "distance_from_midi", midi |-> m, amp |-> 0]
        /\ result' = distance_from_midi(note, m)
        /\ UNCHANGED <<note, pipeVars, unitVars>>

NextNote == NoteNew \/ TryInclude \/ DistanceFromMidi

SpecNote == InitNote /\ [][NextNote]_vars

\* --------------------------------------------- load_music, step by step
\* sample rates up to MaxRate, and those of common audio files
Rates == (0..MaxRate) \cup {8000, 11025, 22050, 44100, 48000, 96000, 192000}

\* load_music is entered: samples_per_frame = 2 (line 68)
LoadMusicBegin ==
    /\ load_loop.pc \in {"idle", "done"}
    /\ \E rate \in Rates :
           load_loop' = [pc |-> "loop", rate |-> rate, samples_per_frame |-> 2]
    /\ UNCHANGED <<noteVars, pipeVars, tones, sampler, loader>>

\* one turn of the loop that doubles (lines 72-76)
LoadMusicDouble ==
    /\ load_loop.pc = "loop"
    /\ CloserWhenDoubled(load_loop.rate, load_loop.samples_per_frame)
    /\ load_loop' = [load_loop EXCEPT !.samples_per_frame = @ * 2]
    /\ UNCHANGED <<noteVars, pipeVars, tones, sampler, loader>>

\* the turn of the loop that breaks (lines 77-79)
LoadMusicBreak ==
    /\ load_loop.pc = "loop"
    /\ ~CloserWhenDoubled(load_loop.rate, load_loop.samples_per_frame)
    /\ load_loop' = [load_loop EXCEPT !.pc = "done"]
    /\ UNCHANGED <<noteVars, pipeVars, tones, sampler, loader>>

NextLoad == LoadMusicBegin \/ LoadMusicDouble \/ LoadMusicBreak

InitLoad == IdleNote /\ InitPipe /\ IdleUnits

SpecLoad == InitLoad /\ [][NextLoad]_vars

\* ------------------------------------------- find_tones, one bin per step
\* the bins a spectrum may hold, as (midi, amplitude): every midi value, the
\* two lowest amplitudes and the highest
TonesBins == { Bin(m, a) : m \in MidiVals, a \in {0, 1, MaxAmp} }

\* line 167: current_notes.clear(), whatever the last call left
FindTonesClear ==
    /\ tones.pc \in {"idle", "done"}
    /\ tones' = [pc |-> "loop", notes |-> << >>, bins |-> << >>]
    /\ UNCHANGED <<noteVars, pipeVars, load_loop, sampler, loader>>

\* lines 169-182: one iteration of the loop over spectrum.data()
FindTonesBin ==
    /\ tones.pc = "loop"
    /\ Len(tones.bins) < MaxBins
    /\ \E bin \in TonesBins :
           tones' = [tones EXCEPT !.notes = OfferBin(@, bin), !.bins = Append(@, bin)]
    /\ UNCHANGED <<noteVars, pipeVars, load_loop, sampler, loader>>

\* line 184: the spectrum is exhausted and current_notes is sorted
FindTonesSort ==
    /\ tones.pc = "loop"
    /\ tones' = [tones EXCEPT !.pc = "done", !.notes = SortByAmplitude(@)]
    /\ UNCHANGED <<noteVars, pipeVars, load_loop, sampler, loader>>

NextTones == FindTonesClear \/ FindTonesBin \/ FindTonesSort

InitTones == IdleNote /\ InitPipe /\ IdleUnits

SpecTones == InitTones /\ [][NextTones]_vars

\* ------------------------------------------------- update_samples, one call
\* Music::position() is in seconds: here in units of 1/PosUnit s
PosUnit == 16

\* the sample rates of the tracks update_samples is run on
SamplerRates == {8, 40}

\* line 151: (position * sample_rate as f64) as usize, a cast that truncates
start_sample(pos, rate) == (pos * rate) \div PosUnit

\* mutant of end_sample: the end of the track is not looked at
end_sample_unclamped(start, n, len) == start + n

\* line 153: (start_sample + samples_per_frame).min(frames.len())
end_sample(start, n, len) == IF start + n < len THEN start + n ELSE len

\* an element of current_frame: frames[index] reduced to mono and multiplied by
\* the Hann coefficient of place i in a window of n samples, or the 0.0 that
\* Vec::resize appends
Windowed(index, i, n) == [pad |-> FALSE, index |-> index, i |-> i, n |-> n]
Pad == [pad |-> TRUE, index |-> 0, i |-> 0, n |-> 0]

\* Synesthetizer::update_samples for a track of len frames at position pos.
\* Slicing frames[start..end] past the end of the track would panic.
UpdateSamples ==
    /\ \E rate \in SamplerRates, len \in 0..MaxFrames, pos \in 0..MaxPos :
        LET n == load_music(rate)
            start == start_sample(pos, rate)
            end == end_sample(start, n, len)
            sliced == end > start
            taken == IF sliced THEN end - start ELSE 0
        IN  sampler' =
              [ pc |-> "done", rate |-> rate, samples_per_frame |-> n, len |-> len, pos |-> pos,
                reads |-> IF sliced THEN { i \in start..(end - 1) : i < len } ELSE {},
                panicked |-> sliced /\ end > len,
                current_frame |->
                    IF sliced /\ end > len THEN << >>
                    ELSE [ k \in 1..n |-> IF k <= taken
                                             THEN Windowed(start + k - 1, k - 1, taken)
                                             ELSE Pad ] ]
    /\ UNCHANGED <<noteVars, pipeVars, load_loop, tones, loader>>

NextSamples == UpdateSamples

InitSamples == IdleNote /\ InitPipe /\ IdleUnits

SpecSamples == InitSamples /\ [][NextSamples]_vars

\* ------------------------------------- MusicLoader under any order of calls
\* mutant of TakeChannel: the channel is read and left in place
KeepChannel(channel) == channel

\* line 130: std::mem::replace(&mut self.active_channel, None)
TakeChannel(channel) == NoLoad

\* MusicLoader::load_from_file: a worker thread is spawned and its handle
\* replaces whatever active_channel held; a replaced handle is dropped, which
\* detaches its thread
LoadFromFile ==
    /\ ~loader.crashed
    /\ Len(loader.threads) < MaxLoads
    /\ loader' = [loader EXCEPT
           !.threads = Append(@, "running"),
           !.active_channel = Len(loader.threads) + 1,
           !.returned = "meta",
           !.superseded = IF loader.active_channel = NoLoad THEN @
                          ELSE @ \cup {loader.active_channel},
           !.consumed = FALSE]
    /\ UNCHANGED <<noteVars, pipeVars, load_loop, tones, sampler>>

\* lines 106-110: a worker thread, detached or not, returns Ok or Err
ThreadFinishes ==
    /\ ~loader.crashed
    /\ \E id \in DOMAIN loader.threads, outcome \in {"ok", "err"} :
           /\ loader.threads[id] = "running"
           /\ loader' = [loader EXCEPT !.threads[id] = outcome]
    /\ UNCHANGED <<noteVars, pipeVars, load_loop, tones, sampler>>

\* MusicLoader::check_loaded; audio_manager.play(..).unwrap() may panic
CheckLoadedCall ==
    /\ ~loader.crashed
    /\ LET channel == loader.active_channel
       IN  IF channel # NoLoad /\ loader.threads[channel] # "running"
               THEN IF loader.threads[channel] = "ok"
                   THEN \E play_ok \in BOOLEAN :
                       IF play_ok
                           THEN loader' = [loader EXCEPT
                                    !.active_channel = TakeChannel(channel),
                                    !.returned = "Some",
                                    !.delivered = Append(@, [id |-> channel,
                                                             latest |-> Len(loader.threads)]),
                                    !.consumed = TRUE]
                           ELSE loader' = [loader EXCEPT
                                    !.active_channel = TakeChannel(channel),
                                    !.returned = "panic",
                                    !.consumed = TRUE,
                                    !.crashed = TRUE]
                   ELSE loader' = [loader EXCEPT
                            !.active_channel = TakeChannel(channel),
                            !.returned = "None",
                            !.consumed = TRUE]
               ELSE loader' = [loader EXCEPT !.returned = "None"]
    /\ UNCHANGED <<noteVars, pipeVars, load_loop, tones, sampler>>

NextLoader == LoadFromFile \/ ThreadFinishes \/ CheckLoadedCall

InitLoaderSpec == IdleNote /\ InitPipe /\ IdleUnits

SpecLoader == InitLoaderSpec /\ [][NextLoader]_vars

\* ------------------------------------------------------ claims on the Note
Lo(r) == IF r.start <= r.end THEN r.start ELSE r.end
Hi(r) == IF r.start <= r.end THEN r.end ELSE r.start
\* the distance between the two bounds of a range
Width(r) == Abs(r.end - r.start)
\* v lies between the two bounds of r, bounds included
Between(v, r) == Lo(r) <= v /\ v <= Hi(r)
\* 0 when v lies between the bounds, otherwise the gap to the nearer bound
Gap(v, r) == IF Between(v, r) THEN 0 ELSE IF v < Lo(r) THEN Lo(r) - v ELSE v - Hi(r)

\* C1: after every successful try_include the width of midi_range is at most
\* MAX_MIDI_RANGE and the width of amp_range is at most MAX_AMPLITUDE_RANGE.
C1_RangeWidthsBounded ==
    (call.op = "try_include" /\ result = "Ok") =>
        /\ Width(note.midi_range) <= MAX_MIDI_RANGE
        /\ Width(note.amp_range) <= MAX_AMPLITUDE_RANGE

\* C2: try_include returns Err whenever the distance from pitch.midi to the
\* current midi_range plus the current midi_range width exceeds MAX_MIDI_RANGE,
\* or the same sum for the amplitude exceeds MAX_AMPLITUDE_RANGE.
C2_RejectsBeyondMaxRange ==
    [][ ( /\ call'.op = "try_include"
          /\ \/ Gap(call'.midi, note.midi_range) + Width(note.midi_range) > MAX_MIDI_RANGE
             \/ Gap(call'.amp, note.amp_range) + Width(note.amp_range) > MAX_AMPLITUDE_RANGE )
        => result' = "Err" ]_vars

\* C3: a try_include that returns Err leaves peak_pitch, peak_amplitude,
\* amp_range and midi_range exactly as they were before the call.
C3_ErrLeavesNoteUnchanged ==
    [][ (call'.op = "try_include" /\ result' = "Err") => note' = note ]_vars

\* C3 witness: a call rejected by the amplitude test alone, whose midi lies
\* outside the current midi_range (an extension of midi_range was at stake).
C3_Witness ==
    /\ call.op = "try_include"
    /\ result = "Err"
    /\ AmpRejects(note, call.amp)
    /\ ~MidiRejects(note, call.midi)
    /\ include_in_range(call.midi, note.midi_range) # note.midi_range

\* C4: distance_from_midi(m) is 0 when m lies inside the current midi_range and
\* otherwise the gap from m to the nearer bound of that range.
C4_DistanceIsGapToRange ==
    call.op = "distance_from_midi" => result = Gap(call.midi, note.midi_range)

\* C5: after Note::new and after every successful try_include, midi_range
\* contains peak_pitch.midi and amp_range contains peak_amplitude (each peak
\* lies between the two bounds of its range, bounds included).
C5_RangesContainPeak ==
    /\ Between(note.peak_pitch, note.midi_range)
    /\ Between(note.peak_amplitude, note.amp_range)

\* C5 witness: a successful try_include has just replaced the peak of a Note
\* whose two ranges both have distinct bounds.
C5_Witness ==
    /\ call.op = "try_include"
    /\ result = "Ok"
    /\ note.peak_amplitude = call.amp
    /\ note.peak_pitch = call.midi
    /\ Width(note.midi_range) > 0
    /\ Width(note.amp_range) > 0

\* ---------------------------------------------------- claims on the pipeline
\* a step that is one call of new_frame: it returns, or it panics
NewFrameStep == pc = "new_frame" /\ (pc' = "settings" \/ crashed')

\* C6: with overlay enabled on two consecutive ticks N and N+1, the canvas
\* tick N+1 starts from, before any of its notes is drawn, is exactly the
\* canvas tick N returned.
C6_OverlayStartsFromLastOutput ==
    [][ (NewFrameStep /\ last_tick.overlay = "on" /\ settings)
        => frame_start' = frame_out ]_vars

\* C6 witness: an overlay tick has started from the glyphs of the overlay tick
\* before it and has composited one of them a second time.
C6_Witness ==
    /\ pc = "settings"
    /\ last_tick.overlay = "on"
    /\ frame_start # NewImage
    /\ \E g \in DOMAIN frame_out : g \in DOMAIN frame_start /\ frame_out[g] = frame_start[g] + 1

C8_SnapshotWrittenByNextTick ==
    [][ NewFrameStep =>
          IF snapshot_request # "None"
              THEN /\ files' = [files EXCEPT ![snapshot_request] = File(frame_out')]
                   /\ snapshot_request' = "None"
              ELSE files' = files ]_vars

\* C9: if writing a pending snapshot fails during a tick, the pipeline does not
\* crash, the pending request is cleared anyway, and later ticks still run.
C9_SaveFailureIsReported ==
    [][ (NewFrameStep /\ tick_error' = "save")
        => (~crashed' /\ snapshot_request' = "None" /\ pc' = "settings") ]_vars

\* C10: when the spectral transform fails on a tick, only that tick is skipped:
\* the pipeline does not crash, the persisted buffer, the pending snapshot
\* request and the previous notes are retained, and later ticks still run.
C10_TransformFailureSkipsTick ==
    [][ (NewFrameStep /\ tick_error' = "transform")
        => /\ ~crashed'
           /\ previous_image' = previous_image
           /\ snapshot_request' = snapshot_request
           /\ current_notes' = current_notes
           /\ pc' = "settings" ]_vars

\* C12: on a tick where no track is loaded, or the loaded track is not playing
\* (stopped or paused), new_frame runs no spectral analysis and draws no notes:
\* the transform is not called, the note list is left alone, and a tick that
\* returns gives back the canvas it started from, having persisted that canvas
\* in overlay mode and written it to the path of a pending snapshot request.
C12_IdleTickDrawsNothing ==
    [][ (NewFrameStep /\ (~IsLoaded \/ music_state.playback # "Playing"))
        => /\ tick_error' # "transform"
           /\ current_notes' = current_notes
           /\ current_frame' = current_frame
           /\ pc' = "settings" =>
                  /\ frame_out' = frame_start'
                  /\ settings => previous_image' = frame_start'
                  /\ snapshot_request' = "None"
                  /\ snapshot_request # "None" =>
                         files' = [files EXCEPT ![snapshot_request] = File(frame_start')] ]_vars

\* ------------------------------------------------------ claims on load_music
RECURSIVE Pow2(_)
Pow2(k) == IF k = 0 THEN 1 ELSE 2 * Pow2(k - 1)

\* the frame rate rate / a is strictly closer to the target than rate / b, for
\* powers of two a and b: |rate/a - 12| < |rate/b - 12|, both sides multiplied
\* by the larger of a and b
StrictlyCloser(rate, a, b) ==
    IF a >= b
        THEN Abs(rate - TARGET_FPS * a) < (a \div b) * Abs(rate - TARGET_FPS * b)
        ELSE (b \div a) * Abs(rate - TARGET_FPS * a) < Abs(rate - TARGET_FPS * b)

\* C11: for every sample rate the doubling loop of load_music terminates (while
\* it runs, samples_per_frame is 2 or below rate / 6, so it cannot double for
\* ever) and leaves samples_per_frame a power of two, at least 2, such that no
\* other power of two gives a frame rate strictly closer to the 12 Hz target;
\* for a 44100 Hz track the result is 4096.
C11_NearestPowerOfTwo ==
    /\ load_loop.pc = "loop" =>
           \/ load_loop.samples_per_frame = 2
           \/ 6 * load_loop.samples_per_frame < load_loop.rate
    /\ load_loop.pc = "done" =>
           /\ load_loop.samples_per_frame >= 2
           /\ IsPowerOfTwo(load_loop.samples_per_frame)
           /\ \A k \in 1..MaxExp :
                  ~StrictlyCloser(load_loop.rate, Pow2(k), load_loop.samples_per_frame)
           /\ load_loop.rate = 44100 => load_loop.samples_per_frame = 4096
           /\ load_loop.samples_per_frame = load_music(load_loop.rate)

\* C11 witness: the loop has ended for a 44100 Hz track after doubling.
C11_Witness ==
    /\ load_loop.pc = "done"
    /\ load_loop.rate = 44100
    /\ load_loop.samples_per_frame > 2

\* ------------------------------------------------------ claims on find_tones
\* how often x occurs in a list
Count(list, x) == Cardinality({ i \in DOMAIN list : list[i] = x })

\* C13: find_tones starts from an empty note list; each bin is offered only to
\* the existing note of minimal distance_from_midi, the earliest created on a
\* tie; if that note accepts, no note is created and no other note changes; if
\* it rejects, or no note exists yet, exactly one zero-width note is appended
\* for the bin; at the end the same notes stand sorted ascending by peak
\* amplitude, and there are at most as many notes as bins.
C13_GreedyClustering ==
    [][ LET old == tones.notes
            new == tones'.notes
        IN  /\ (tones.pc # "loop" /\ tones'.pc = "loop") => new = << >>
            /\ (tones.pc = "loop" /\ tones'.pc = "loop") =>
                   LET bin == tones'.bins[Len(tones'.bins)]
                       fresh == new[Len(new)]
                   IN  /\ Len(new) \in {Len(old), Len(old) + 1}
                       /\ Len(new) <= Len(tones'.bins)
                       /\ Len(new) = Len(old) + 1 =>
                              /\ SubSeq(new, 1, Len(old)) = old
                              /\ fresh.peak_pitch = bin.midi
                              /\ fresh.peak_amplitude = bin.amp
                              /\ fresh.midi_range = [start |-> bin.midi, end |-> bin.midi]
                              /\ fresh.amp_range = [start |-> bin.amp, end |-> bin.amp]
                       /\ old = << >> => Len(new) = 1
                       /\ old # << >> =>
                              \E i \in 1..Len(old) :
                                  LET d(k) == distance_from_midi(old[k], bin.midi)
                                      r == try_include(old[i], bin.midi, bin.amp)
                                  IN  /\ \A k \in 1..Len(old) : d(i) <= d(k)
                                      /\ \A k \in 1..(i - 1) : d(k) > d(i)
                                      /\ \A k \in 1..Len(old) : k # i => new[k] = old[k]
                                      /\ r.ok => (Len(new) = Len(old) /\ new[i] = r.note)
                                      /\ ~r.ok => (Len(new) = Len(old) + 1 /\ new[i] = old[i])
            /\ (tones.pc = "loop" /\ tones'.pc = "done") =>
                   /\ Len(new) = Len(old)
                   /\ Len(new) <= Len(tones.bins)
                   /\ \A k \in 1..Len(old) : Count(new, old[k]) = Count(old, old[k])
                   /\ \A k \in 1..(Len(new) - 1) :
                          new[k].peak_amplitude <= new[k + 1].peak_amplitude
                   /\ new = find_tones(tones.bins) ]_vars

\* C13 witness: every bin so far has started a note of its own, and the last
\* one did so although an earlier note, not the closest, would have taken it.
C13_Witness ==
    /\ tones.pc = "loop"
    /\ Len(tones.notes) >= 3
    /\ Len(tones.notes) = Len(tones.bins)
    /\ LET bin == tones.bins[Len(tones.bins)]
           old == SubSeq(tones.notes, 1, Len(tones.notes) - 1)
       IN  /\ ~try_include(old[ClosestIndex(old, bin.midi)], bin.midi, bin.amp).ok
           /\ \E j \in 1..Len(old) : try_include(old[j], bin.midi, bin.amp).ok

\* ------------------------------------------------- claims on update_samples
\* C14: for every position, at or beyond the end of the track included,
\* update_samples reads only indices inside the track, takes
\* min(samples_per_frame, remaining) consecutive samples from
\* floor(position * sample_rate) on, none when nothing remains, and leaves a
\* window of exactly samples_per_frame elements whose tail is zeros.
C14_WindowInsideTrack ==
    sampler.pc = "done" =>
        \E start \in 0..(sampler.pos * sampler.rate) :
            LET remaining == IF sampler.len > start THEN sampler.len - start ELSE 0
                taken == IF sampler.samples_per_frame < remaining
                             THEN sampler.samples_per_frame ELSE remaining
                window == sampler.current_frame
            IN  /\ start * PosUnit <= sampler.pos * sampler.rate
                /\ sampler.pos * sampler.rate < (start + 1) * PosUnit
                /\ ~sampler.panicked
                /\ sampler.reads \subseteq 0..(sampler.len - 1)
                /\ sampler.reads = start..(start + taken - 1)
                /\ Len(window) = sampler.samples_per_frame
                /\ \A k \in 1..Len(window) :
                       IF k <= taken
                           THEN ~window[k].pad /\ window[k].index = start + k - 1
                           ELSE window[k] = Pad

\* C14 witness: the track ended inside the window: its last sample was read
\* and the rest of the window is padding.
C14_Witness ==
    /\ sampler.pc = "done"
    /\ (sampler.len - 1) \in sampler.reads
    /\ ~sampler.current_frame[1].pad
    /\ sampler.current_frame[sampler.samples_per_frame] = Pad

\* ---------------------------------------------------- claims on MusicLoader
\* C15: a load that was replaced by a later load_from_file before check_loaded
\* consumed it is never delivered; check_loaded returns a Music at most once
\* per load_from_file call and only for the most recent request; and once it
\* has consumed a finished load, successful or failed, no load is pending
\* until the next load_from_file.
C15_OnlyLatestLoadDelivered ==
    /\ \A i, j \in DOMAIN loader.delivered :
           i # j => loader.delivered[i].id # loader.delivered[j].id
    /\ \A i \in DOMAIN loader.delivered :
           /\ loader.delivered[i].id = loader.delivered[i].latest
           /\ loader.delivered[i].id \notin loader.superseded
    /\ loader.consumed => loader.active_channel = NoLoad

\* C15 witness: a load was replaced while in progress, its worker thread has
\* since returned Ok, and the load that replaced it has been delivered.
C15_Witness ==
    /\ \E id \in loader.superseded : loader.threads[id] = "ok"
    /\ loader.delivered # << >>
    /\ loader.returned = "Some"

====
